---- MODULE Spec2Model ----
(***************************************************************************)
(* Model of the fuzzy matcher: the subsequence prefilter (has_match), the  *)
(* classification shortcut (Metric::classify), the two-matrix scorer in    *)
(* its two versions (score/mod.rs and lib.rs), the ranking comparator and  *)
(* the search entry points.                                                *)
(*                                                                         *)
(* Strings are sequences of code points; a code point is a TLA+ string.    *)
(* Scores are f32 in the source.  Every constant of the source is a        *)
(* multiple of 0.005, so a finite score is modelled exactly as an integer  *)
(* number of units of 0.005 (f32 rounding is not modelled); the two        *)
(* infinities and NaN are distinguished values with IEEE arithmetic.       *)
(***************************************************************************)
EXTENDS Integers, Sequences, FiniteSets, TLC

VARIABLES
    pc,          \* position of the running call
    query,       \* the query string
    candidate,   \* the candidate of a single has_match / score call
    index,       \* the id handed to a single score call
    ret,         \* what the single call returned
    candidates,  \* the candidate list of a search call
    variant,     \* which search entry point runs: lib.rs or search/mod.rs
    i_next,      \* search: next position of candidates the filter/fold visits
    out,         \* search: the output vector
    sort_i,      \* search: insertion sort, next element to insert (0-based)
    sort_j       \* search: insertion sort, position of the element being inserted

vars == <<pc, query, candidate, index, ret, candidates, variant, i_next, out, sort_i, sort_j>>

---------------------------------------------------------------------------
(* Code points.                                                            *)

\* a three-byte code point without case (U+267A, used by the tests)
Wide == "U+267A"

\* the code points candidates are drawn from
Chars == {"a", "A", "b", "/", ".", "-", "*"}

\* the code points queries are drawn from
QueryChars == {"a", "A", "b"}

is_uppercase(ch) == ch \in {"A", "B"}

is_lowercase(ch) == ch \in {"a", "b"}

\* char::to_lowercase yields a sequence of code points
to_lowercase(ch) ==
    IF ch = "A" THEN <<"a">>
    ELSE IF ch = "B" THEN <<"b">>
    ELSE <<ch>>

len_utf8(ch) == IF ch = Wide THEN 3 ELSE 1

\* str::len: the number of bytes of s[lo..hi]
RECURSIVE str_len_range(_, _, _)
str_len_range(s, lo, hi) ==
    IF lo > hi THEN 0
    ELSE IF lo = hi THEN len_utf8(s[lo])
    ELSE LET mid == (lo + hi) \div 2
         IN  str_len_range(s, lo, mid) + str_len_range(s, mid + 1, hi)

str_len(s) == str_len_range(s, 1, Len(s))

\* str::chars().count()
chars_count(s) == Len(s)

\* n copies of ch
Repeat(ch, n) == [k \in 1..n |-> ch]

---------------------------------------------------------------------------
(* f32 values: integers in units of 0.005, two infinities and NaN.         *)

SCORE_MAX == 1000000000

SCORE_MIN == -1000000000

NaN == 2 * SCORE_MAX

IsFinite(x) == x # SCORE_MAX /\ x # SCORE_MIN /\ x # NaN

\* f32 addition
FAdd(a, b) ==
    IF a = NaN \/ b = NaN THEN NaN
    ELSE IF a = SCORE_MAX THEN (IF b = SCORE_MIN THEN NaN ELSE SCORE_MAX)
    ELSE IF a = SCORE_MIN THEN (IF b = SCORE_MAX THEN NaN ELSE SCORE_MIN)
    ELSE IF b = SCORE_MAX \/ b = SCORE_MIN THEN b
    ELSE a + b

\* f32::max: a NaN operand is ignored
FMax(a, b) ==
    IF a = NaN THEN b
    ELSE IF b = NaN THEN a
    ELSE IF a >= b THEN a ELSE b

\* f32::mul_add(self = j, a, b) = j * a + b, for a finite j and a
mul_add(j, a, b) == FAdd(j * a, b)

\* f32::partial_cmp
f32_partial_cmp(a, b) ==
    IF a = NaN \/ b = NaN THEN "None"
    ELSE IF a < b THEN "Less"
    ELSE IF a > b THEN "Greater"
    ELSE "Equal"

SCORE_GAP_LEADING == -1

SCORE_GAP_INNER == -2

SCORE_GAP_TRAILING == -1

SCORE_MATCH_CONSECUTIVE == 200

SCORE_MATCH_SLASH == 180

SCORE_MATCH_WORD == 160

SCORE_MATCH_CAPITAL == 140

SCORE_MATCH_DOT == 120

CANDIDATE_MAX_BYTES == 2048

CANDIDATE_MAX_CHARS == 1024

---------------------------------------------------------------------------
(* The prefilter.                                                          *)

\* the closure's test: left.to_lowercase().eq(right.to_lowercase())
lowercase_eq(left, right) == to_lowercase(left) = to_lowercase(right)

\* any, leaving the iterator on the code point it found
any_not_consuming(chars, pos, right) ==
    LET hits == {k \in pos..Len(chars) : lowercase_eq(chars[k], right)}
    IN  IF hits = {}
        THEN [found |-> FALSE, pos |-> Len(chars) + 1]
        ELSE LET k == CHOOSE h \in hits : \A m \in hits : h <= m
             IN  [found |-> TRUE, pos |-> k]

\* Iterator::any on the candidate's char iterator standing before position
\* pos (1-based): consumes up to and including the first code point equal to
\* right, or everything when there is none
any(chars, pos, right) ==
    LET hits == {k \in pos..Len(chars) : lowercase_eq(chars[k], right)}
    IN  IF hits = {}
        THEN [found |-> FALSE, pos |-> Len(chars) + 1]
        ELSE LET k == CHOOSE h \in hits : \A m \in hits : h <= m
             IN  [found |-> TRUE, pos |-> k + 1]

\* Iterator::all over query[lo..hi], short-circuiting; st = [ok, pos] carries
\* the candidate iterator between the calls of the closure
RECURSIVE all_range(_, _, _, _, _)
all_range(q, chars, lo, hi, st) ==
    IF ~st.ok \/ lo > hi THEN st
    ELSE IF lo = hi
    THEN LET r == any(chars, st.pos, q[lo])
         IN  [ok |-> r.found, pos |-> r.pos]
    ELSE LET mid == (lo + hi) \div 2
         IN  all_range(q, chars, mid + 1, hi, all_range(q, chars, lo, mid, st))

has_match(q, c) == all_range(q, c, 1, Len(q), [ok |-> TRUE, pos |-> 1]).ok

---------------------------------------------------------------------------
(* Classification.                                                         *)

Metric_Score(s) == [kind |-> "Score", score |-> s, q |-> 0, c |-> 0]

Metric_Lengths(q, c) == [kind |-> "Lengths", score |-> 0, q |-> q, c |-> c]

\* classify with the test of the lengths as q_len <= c_len
classify_not_longer(q, c) ==
    IF str_len(c) > CANDIDATE_MAX_BYTES \/ q = <<>>
    THEN Metric_Score(SCORE_MIN)
    ELSE LET q_len == chars_count(q)
             c_len == chars_count(c)
         IN  IF q_len <= c_len THEN Metric_Score(SCORE_MAX)
             ELSE IF c_len > CANDIDATE_MAX_CHARS THEN Metric_Score(SCORE_MIN)
             ELSE Metric_Lengths(q_len, c_len)

classify(q, c) ==
    IF str_len(c) > CANDIDATE_MAX_BYTES \/ q = <<>>
    THEN Metric_Score(SCORE_MIN)
    ELSE LET q_len == chars_count(q)
             c_len == chars_count(c)
         IN  IF q_len = c_len THEN Metric_Score(SCORE_MAX)
             ELSE IF c_len > CANDIDATE_MAX_CHARS THEN Metric_Score(SCORE_MIN)
             ELSE Metric_Lengths(q_len, c_len)

---------------------------------------------------------------------------
(* Positional bonuses.                                                     *)

is_separator(ch) == ch \in {" ", "-", "_"}

character_match_bonus(current, previous) ==
    IF is_uppercase(current) /\ is_lowercase(previous)
    THEN SCORE_MATCH_CAPITAL
    ELSE IF previous = "/" THEN SCORE_MATCH_SLASH
    ELSE IF previous = "." THEN SCORE_MATCH_DOT
    ELSE IF is_separator(previous) THEN SCORE_MATCH_WORD
    ELSE 0

\* one entry per code point, indexed from 0 as in the source; prev_char
\* starts as '/'
candidate_match_bonuses(c) ==
    [j \in 0..(Len(c) - 1) |->
        character_match_bonus(c[j + 1], IF j = 0 THEN "/" ELSE c[j])]

---------------------------------------------------------------------------
(* The outcome of a call: a returned value, or a panic.                    *)

Returned(v) == [panicked |-> FALSE, value |-> v]

Panic == [panicked |-> TRUE, value |-> <<>>]

\* Score::with_score
Score_with_score(id, s) == [index |-> id, score |-> s]

\* ScoreMatrix::zeros((rows, cols)), indexed from 0
zeros(rows, cols) == [i \in 0..(rows - 1), j \in 0..(cols - 1) |-> 0]

\* usize a - b.  With a < b a debug build panics on the subtraction and a
\* release build wraps to a value near 2^64, which no matrix has as an
\* index: -1 stands for that value, which is not an index either
usize_sub(a, b) == IF a >= b THEN a - b ELSE -1

\* matrix[[i, j]]: ndarray panics on an index out of bounds
matrix_index(m, i, j) ==
    IF <<i, j>> \in DOMAIN m THEN Returned(m[i, j]) ELSE Panic

---------------------------------------------------------------------------
(* The scorer of score/mod.rs.                                             *)
(* A loop is an operator over the loop's state, which carries the          *)
(* enumerate() counter; it runs the body on the first half of what is left *)
(* and then on the rest.                                                   *)

\* the gap penalty without the trailing gap
gap_score_of_no_trailing(i, q_len) ==
    IF i = q_len - 1 THEN 0 ELSE SCORE_GAP_INNER

\* the gap penalty of row i
gap_score_of(i, q_len) ==
    IF i = q_len - 1 THEN SCORE_GAP_TRAILING ELSE SCORE_GAP_INNER

\* the score bonus for matching query[i] at candidate[j]
match_score(match_bonuses, i, j, best_score_overall, best_score_w_ending) ==
    IF i = 0
    THEN mul_add(j, SCORE_GAP_LEADING, match_bonuses[j])
    ELSE IF j # 0
    THEN FMax(FAdd(best_score_overall[i - 1, j - 1], match_bonuses[j]),
              FAdd(best_score_w_ending[i - 1, j - 1], SCORE_MATCH_CONSECUTIVE))
    ELSE SCORE_MIN

\* the body of the inner loop at row i, column st.j; st carries prev_score
\* and the two matrices
score_cell(q, c, q_len, match_bonuses, i, st) ==
    LET j == st.j
        q_char == q[i + 1]
        c_char == c[j + 1]
        gap_score == gap_score_of(i, q_len)
    IN  IF lowercase_eq(q_char, c_char)
        THEN LET s == match_score(match_bonuses, i, j,
                                  st.best_score_overall, st.best_score_w_ending)
                 prev == FMax(s, FAdd(st.prev_score, gap_score))
             IN  [j |-> j + 1,
                  prev_score |-> prev,
                  best_score_overall |-> [st.best_score_overall EXCEPT ![i, j] = prev],
                  best_score_w_ending |-> [st.best_score_w_ending EXCEPT ![i, j] = s]]
        ELSE LET prev == FAdd(st.prev_score, gap_score)
             IN  [j |-> j + 1,
                  prev_score |-> prev,
                  best_score_overall |-> [st.best_score_overall EXCEPT ![i, j] = prev],
                  best_score_w_ending |-> [st.best_score_w_ending EXCEPT ![i, j] = SCORE_MIN]]

\* the inner loop of row i from column st.j to column hi, in order
RECURSIVE score_columns(_, _, _, _, _, _, _)
score_columns(q, c, q_len, match_bonuses, i, hi, st) ==
    IF st.j > hi THEN st
    ELSE IF st.j = hi THEN score_cell(q, c, q_len, match_bonuses, i, st)
    ELSE LET mid == (st.j + hi) \div 2
         IN  score_columns(q, c, q_len, match_bonuses, i, hi,
                 score_columns(q, c, q_len, match_bonuses, i, mid, st))

\* one pass of the outer loop with prev_score starting at 0.0
score_row_from_zero(q, c, q_len, match_bonuses, mats) ==
    LET st == score_columns(q, c, q_len, match_bonuses, mats.i, Len(c) - 1,
                  [j |-> 0,
                   prev_score |-> 0,
                   best_score_overall |-> mats.best_score_overall,
                   best_score_w_ending |-> mats.best_score_w_ending])
    IN  [i |-> mats.i + 1,
         best_score_overall |-> st.best_score_overall,
         best_score_w_ending |-> st.best_score_w_ending]

\* one pass of the outer loop, row mats.i: prev_score starts at SCORE_MIN
score_row(q, c, q_len, match_bonuses, mats) ==
    LET st == score_columns(q, c, q_len, match_bonuses, mats.i, Len(c) - 1,
                  [j |-> 0,
                   prev_score |-> SCORE_MIN,
                   best_score_overall |-> mats.best_score_overall,
                   best_score_w_ending |-> mats.best_score_w_ending])
    IN  [i |-> mats.i + 1,
         best_score_overall |-> st.best_score_overall,
         best_score_w_ending |-> st.best_score_w_ending]

\* the outer loop from row mats.i to row hi, in order
RECURSIVE score_rows(_, _, _, _, _, _)
score_rows(q, c, q_len, match_bonuses, hi, mats) ==
    IF mats.i > hi THEN mats
    ELSE IF mats.i = hi THEN score_row(q, c, q_len, match_bonuses, mats)
    ELSE LET mid == (mats.i + hi) \div 2
         IN  score_rows(q, c, q_len, match_bonuses, hi,
                 score_rows(q, c, q_len, match_bonuses, mid, mats))

\* the two matrices after the loops
score_matrices(q, c, q_len, c_len) ==
    score_rows(q, c, q_len, candidate_match_bonuses(c), Len(q) - 1,
        [i |-> 0,
         best_score_overall |-> zeros(q_len, c_len),
         best_score_w_ending |-> zeros(q_len, c_len)])

score(q, c, id) ==
    LET m == classify(q, c)
    IN  IF m.kind = "Score" THEN Returned(Score_with_score(id, m.score))
        ELSE LET mats == score_matrices(q, c, m.q, m.c)
                 last == matrix_index(mats.best_score_overall,
                                      usize_sub(m.q, 1), usize_sub(m.c, 1))
             IN  IF last.panicked THEN Panic
                 ELSE Returned(Score_with_score(id, last.value))

---------------------------------------------------------------------------
(* The scorer of lib.rs.                                                   *)

\* the gap of row i
lib_gap(i, q) ==
    IF i = q - 1 THEN SCORE_GAP_TRAILING ELSE SCORE_GAP_INNER

\* res, the value of matching query[i] at candidate[j]
lib_res(match_bonuses, i, j, overall, ending) ==
    IF i = 0
    THEN mul_add(j, SCORE_GAP_LEADING, match_bonuses[j])
    ELSE IF j # 0
    THEN FMax(FAdd(overall[i - 1, j - 1], match_bonuses[j]),
              FAdd(ending[i - 1, j - 1], SCORE_MATCH_CONSECUTIVE))
    ELSE SCORE_MIN

lib_score_cell(q, c, q_len, match_bonuses, i, st) ==
    LET j == st.j
        left == q[i + 1]
        ch == c[j + 1]
        gap == lib_gap(i, q_len)
    IN  IF lowercase_eq(left, ch)
        THEN LET res == lib_res(match_bonuses, i, j, st.overall, st.ending)
                 sc == FMax(st.score, FAdd(res, gap))
             IN  [j |-> j + 1,
                  score |-> sc,
                  ending |-> [st.ending EXCEPT ![i, j] = sc],
                  overall |-> [st.overall EXCEPT ![i, j] = sc]]
        ELSE LET sc == FAdd(st.score, gap)
             IN  [j |-> j + 1,
                  score |-> sc,
                  ending |-> [st.ending EXCEPT ![i, j] = SCORE_MIN],
                  overall |-> [st.overall EXCEPT ![i, j] = sc]]

RECURSIVE lib_score_columns(_, _, _, _, _, _, _)
lib_score_columns(q, c, q_len, match_bonuses, i, hi, st) ==
    IF st.j > hi THEN st
    ELSE IF st.j = hi THEN lib_score_cell(q, c, q_len, match_bonuses, i, st)
    ELSE LET mid == (st.j + hi) \div 2
         IN  lib_score_columns(q, c, q_len, match_bonuses, i, hi,
                 lib_score_columns(q, c, q_len, match_bonuses, i, mid, st))

lib_score_row(q, c, q_len, match_bonuses, mats) ==
    LET st == lib_score_columns(q, c, q_len, match_bonuses, mats.i, Len(c) - 1,
                  [j |-> 0, score |-> SCORE_MIN,
                   ending |-> mats.ending, overall |-> mats.overall])
    IN  [i |-> mats.i + 1, ending |-> st.ending, overall |-> st.overall]

RECURSIVE lib_score_rows(_, _, _, _, _, _)
lib_score_rows(q, c, q_len, match_bonuses, hi, mats) ==
    IF mats.i > hi THEN mats
    ELSE IF mats.i = hi THEN lib_score_row(q, c, q_len, match_bonuses, mats)
    ELSE LET mid == (mats.i + hi) \div 2
         IN  lib_score_rows(q, c, q_len, match_bonuses, hi,
                 lib_score_rows(q, c, q_len, match_bonuses, mid, mats))

lib_score_matrices(q, c, q_len, c_len) ==
    lib_score_rows(q, c, q_len, candidate_match_bonuses(c), Len(q) - 1,
        [i |-> 0, ending |-> zeros(q_len, c_len), overall |-> zeros(q_len, c_len)])

lib_score(q, c, id) ==
    LET m == classify(q, c)
    IN  IF m.kind = "Score" THEN Returned(Score_with_score(id, m.score))
        ELSE LET mats == lib_score_matrices(q, c, m.q, m.c)
                 last == matrix_index(mats.overall, usize_sub(m.q, 1), usize_sub(m.c, 1))
             IN  IF last.panicked THEN Panic
                 ELSE Returned(Score_with_score(id, last.value))

---------------------------------------------------------------------------
(* The ranking comparator and the search entry points.                     *)

Ordering_reverse(o) ==
    IF o = "Less" THEN "Greater"
    ELSE IF o = "Greater" THEN "Less"
    ELSE o

\* Option::unwrap_or
unwrap_or(opt, default) == IF opt = "None" THEN default ELSE opt

\* the comparison without reverse()
Score_partial_cmp_not_reversed(self, other) ==
    unwrap_or(f32_partial_cmp(self.score, other.score), "Less")

\* impl PartialOrd for Score: always Some(..), given here unwrapped
Score_partial_cmp(self, other) ==
    Ordering_reverse(unwrap_or(f32_partial_cmp(self.score, other.score), "Less"))

\* the closure handed to sort_unstable_by
sort_compare(left, right) == unwrap_or(Score_partial_cmp(left, right), "Less")

\* the filter with a fresh candidate iterator for every query code point
lib_search_filter_fresh_iterator(q, c) ==
    \A k \in 1..Len(q) : any(c, 1, q[k]).found

\* the filter closure of search in lib.rs
lib_search_filter(q, c) == all_range(q, c, 1, Len(q), [ok |-> TRUE, pos |-> 1]).ok

\* score_inner, which search_score hands to search_internal
score_inner(q, c, id) == score(q, c, id)

\* the filter and the scorer of each entry point
search_filter(v, q, c) == IF v = "lib" THEN lib_search_filter(q, c) ELSE has_match(q, c)

search_fn(v, q, c, id) == IF v = "lib" THEN lib_score(q, c, id) ELSE score_inner(q, c, id)

\* v with the elements at the 0-based positions a and b exchanged
swap(v, a, b) == [v EXCEPT ![a + 1] = v[b + 1], ![b + 1] = v[a + 1]]

---------------------------------------------------------------------------
(* Inputs.                                                                 *)

MaxQueryLen == 2

MaxCandLen == 3

MaxCandidates == 3

SeqsUpTo(S, n) == UNION {[1..k -> S] : k \in 0..n}

ShortQueries == SeqsUpTo(QueryChars, MaxQueryLen)

ShortCandidates == SeqsUpTo(Chars, MaxCandLen)

ShortInputs == ShortQueries \X ShortCandidates

\* the ids handed to a single score call
Indices == {0, 1}

\* strings at the two ceilings
LongInputs ==
    ({<<>>, <<"a">>, <<"b">>, <<Wide>>}
        \X {Repeat("a", CANDIDATE_MAX_CHARS), Repeat("a", CANDIDATE_MAX_CHARS + 1),
            Repeat("a", CANDIDATE_MAX_BYTES + 1),
            Repeat(Wide, CANDIDATE_MAX_BYTES \div 3),
            Repeat(Wide, CANDIDATE_MAX_BYTES \div 3 + 1)})
    \cup {<<Repeat("a", n), Repeat(ch, n)>> :
             n \in {CANDIDATE_MAX_CHARS, CANDIDATE_MAX_CHARS + 1, CANDIDATE_MAX_BYTES + 1},
             ch \in {"a", "b"}}

SearchQueries == {<<>>, <<"a">>, <<"a", "b">>}

SearchPool ==
    {<<"a">>, <<"a", "b">>, <<"b", "a">>, <<"/", "a">>, <<"b">>,
     Repeat("a", CANDIDATE_MAX_CHARS + 1)}

NoCall == [panicked |-> FALSE, value |-> <<>>]

---------------------------------------------------------------------------
(* Single calls of has_match and of the two scorers.                       *)

SearchIdle ==
    /\ candidates = <<>>
    /\ variant = "none"
    /\ i_next = 0
    /\ out = <<>>
    /\ sort_i = 0
    /\ sort_j = 0

InitScore ==
    /\ pc = "input"
    /\ \E input \in ShortInputs :
           /\ query = input[1]
           /\ candidate = input[2]
    /\ index = 0
    /\ ret = NoCall
    /\ SearchIdle

InitCeilings ==
    /\ pc = "input"
    /\ \E input \in ShortInputs \cup LongInputs :
           /\ query = input[1]
           /\ candidate = input[2]
    /\ index = 0
    /\ ret = NoCall
    /\ SearchIdle

HasMatchCall ==
    /\ pc = "input"
    /\ pc' = "has_match"
    /\ ret' = Returned(has_match(query, candidate))
    /\ UNCHANGED <<query, candidate, index, candidates, variant, i_next, out, sort_i, sort_j>>

ScoreCall ==
    /\ pc = "input"
    /\ \E id \in Indices :
           /\ index' = id
           /\ ret' = score(query, candidate, id)
    /\ pc' = "score"
    /\ UNCHANGED <<query, candidate, candidates, variant, i_next, out, sort_i, sort_j>>

LibScoreCall ==
    /\ pc = "input"
    /\ \E id \in Indices :
           /\ index' = id
           /\ ret' = lib_score(query, candidate, id)
    /\ pc' = "lib_score"
    /\ UNCHANGED <<query, candidate, candidates, variant, i_next, out, sort_i, sort_j>>

NextScore == HasMatchCall \/ ScoreCall \/ LibScoreCall

SpecScore == InitScore /\ [][NextScore]_vars

SpecCeilings == InitCeilings /\ [][NextScore]_vars

---------------------------------------------------------------------------
(* search (lib.rs) and search_score (search/mod.rs).                       *)

Init ==
    /\ pc = "filter"
    /\ query \in SearchQueries
    /\ candidates \in SeqsUpTo(SearchPool, MaxCandidates)
    /\ variant \in {"lib", "search_score"}
    /\ i_next = 0
    /\ out = <<>>
    /\ sort_i = 0
    /\ sort_j = 0
    /\ candidate = <<>>
    /\ index = 0
    /\ ret = NoCall

\* one element of candidates.iter().enumerate() through filter and fold
FilterFold ==
    /\ pc = "filter"
    /\ i_next < Len(candidates)
    /\ LET c == candidates[i_next + 1]
       IN  IF search_filter(variant, query, c)
           THEN LET r == search_fn(variant, query, c, i_next)
                IN  IF r.panicked
                    THEN /\ pc' = "panicked"
                         /\ UNCHANGED <<out, i_next>>
                    ELSE /\ out' = Append(out, r.value)
                         /\ i_next' = i_next + 1
                         /\ pc' = pc
           ELSE /\ i_next' = i_next + 1
                /\ UNCHANGED <<out, pc>>
    /\ UNCHANGED <<query, candidate, index, ret, candidates, variant, sort_i, sort_j>>

\* the iterator is exhausted: sort_unstable_by starts, an insertion sort
\* that inserts out[sort_i] into the sorted prefix out[0..sort_i]
SortStart ==
    /\ pc = "filter"
    /\ i_next = Len(candidates)
    /\ pc' = "sort"
    /\ sort_i' = 1
    /\ sort_j' = 1
    /\ UNCHANGED <<query, candidate, index, ret, candidates, variant, i_next, out>>

\* the element at sort_j compares Less than its left neighbour: it moves left
SortShift ==
    /\ pc = "sort"
    /\ sort_i < Len(out)
    /\ sort_j > 0
    /\ sort_compare(out[sort_j + 1], out[sort_j]) = "Less"
    /\ out' = swap(out, sort_j, sort_j - 1)
    /\ sort_j' = sort_j - 1
    /\ UNCHANGED <<pc, query, candidate, index, ret, candidates, variant, i_next, sort_i>>

\* the sort is unstable: an element may pass a neighbour it compares Equal to
SortShiftEqual ==
    /\ pc = "sort"
    /\ sort_i < Len(out)
    /\ sort_j > 0
    /\ sort_compare(out[sort_j + 1], out[sort_j]) = "Equal"
    /\ out' = swap(out, sort_j, sort_j - 1)
    /\ sort_j' = sort_j - 1
    /\ UNCHANGED <<pc, query, candidate, index, ret, candidates, variant, i_next, sort_i>>

\* the element is in place: the next one is inserted
SortInsertNext ==
    /\ pc = "sort"
    /\ sort_i < Len(out)
    /\ \/ sort_j = 0
       \/ sort_j > 0 /\ sort_compare(out[sort_j + 1], out[sort_j]) # "Less"
    /\ sort_i' = sort_i + 1
    /\ sort_j' = sort_i + 1
    /\ UNCHANGED <<pc, query, candidate, index, ret, candidates, variant, i_next, out>>

\* search returns out
SearchReturn ==
    /\ pc = "sort"
    /\ sort_i >= Len(out)
    /\ pc' = "done"
    /\ UNCHANGED <<query, candidate, index, ret, candidates, variant, i_next, out, sort_i, sort_j>>

Next ==
    \/ FilterFold
    \/ SortStart
    \/ SortShift
    \/ SortShiftEqual
    \/ SortInsertNext
    \/ SearchReturn

Spec == Init /\ [][Next]_vars

---------------------------------------------------------------------------
(* Properties of the prefilter and of search.                              *)

\* the case-folded code points of q occur in those of c as an ordered
\* subsequence: there is a strictly increasing map p of the positions of q
\* into the positions of c with q[k] and c[p[k]] equal after case folding
IsSubsequence(q, c) ==
    \E p \in [1..Len(q) -> 1..Len(c)] :
        /\ \A k, l \in 1..Len(q) : k < l => p[k] < p[l]
        /\ \A k \in 1..Len(q) : to_lowercase(q[k]) = to_lowercase(c[p[k]])

\* C1: has_match(q, c) returns true exactly when the case-folded code points
\* of q occur in the case-folded code points of c as an ordered subsequence;
\* so has_match("", c) is true for every c and has_match(q, "") is false for
\* every non-empty q
C1_HasMatchIffSubsequence ==
    pc = "has_match" =>
        /\ ~ret.panicked
        /\ ret.value <=> IsSubsequence(query, candidate)
        /\ query = <<>> => ret.value
        /\ (query # <<>> /\ candidate = <<>>) => ~ret.value

\* a two-point query found across a gap and across a change of case
C1_Witness ==
    /\ pc = "has_match"
    /\ query = <<"A", "b">>
    /\ candidate = <<"a", "*", "b">>
    /\ ret.value

\* the positions of candidates that pass has_match, 0-based
MatchingIndices == {i \in 0..(Len(candidates) - 1) : has_match(query, candidates[i + 1])}

\* the scorer the running entry point calls
EntryScore(q, c, id) == IF variant = "lib" THEN lib_score(q, c, id) ELSE score(q, c, id)

\* C2: the indices in the output of search are exactly the positions i with
\* has_match(query, candidates[i]), each once, and each result's score is
\* score(query, candidates[index], index)
C2_SearchReturnsExactlyTheMatches ==
    pc = "done" =>
        /\ {out[k].index : k \in 1..Len(out)} = MatchingIndices
        /\ Len(out) = Cardinality(MatchingIndices)
        /\ \A k \in 1..Len(out) :
               LET r == EntryScore(query, candidates[out[k].index + 1], out[k].index)
               IN  ~r.panicked /\ out[k] = r.value

\* three candidates, one filtered out, the other two exchanged by the sort
C2_Witness ==
    /\ pc = "done"
    /\ Len(candidates) = 3
    /\ Len(out) = 2
    /\ out[1].index > out[2].index
    /\ out[1].score > out[2].score

\* f32 >=
FGe(a, b) == a # NaN /\ b # NaN /\ a >= b

\* C3: the output of search is sorted by descending score, also when it holds
\* both sentinels and finite scores
C3_OutputSortedDescending ==
    pc = "done" =>
        \A k, l \in 1..Len(out) : k < l => FGe(out[k].score, out[l].score)

\* an output with the +infinity sentinel, a finite score and the -infinity
\* sentinel, from candidates given in the opposite order
C3_Witness ==
    /\ pc = "done"
    /\ Len(out) = 3
    /\ out[1].score = SCORE_MAX /\ out[1].index = 2
    /\ IsFinite(out[2].score) /\ out[2].index = 1
    /\ out[3].score = SCORE_MIN /\ out[3].index = 0

---------------------------------------------------------------------------
(* Properties of the scorers.  A state with pc = "score" holds in ret what *)
(* score of score/mod.rs returned for (query, candidate, index), a state   *)
(* with pc = "lib_score" what score of lib.rs returned.                    *)

Scored == pc \in {"score", "lib_score"}

\* the scorer whose call the state holds
CalledScore(q, c, id) == IF pc = "lib_score" THEN lib_score(q, c, id) ELSE score(q, c, id)

ExceedsCeilings(c) ==
    str_len(c) > CANDIDATE_MAX_BYTES \/ chars_count(c) > CANDIDATE_MAX_CHARS

\* C4: with an empty query, or a candidate above the byte ceiling or the
\* code-point ceiling, score returns the minimum sentinel, also when the
\* candidate has as many code points as the query
C4_EmptyOrOversizedScoresMin ==
    (Scored /\ (query = <<>> \/ ExceedsCeilings(candidate))) =>
        ~ret.panicked /\ ret.value.score = SCORE_MIN

\* C5: a score of +infinity implies equal code-point counts and has_match, and
\* the DP path never produces +infinity
C5_MaxImpliesEqualCountsAndMatch ==
    (Scored /\ ~ret.panicked) =>
        /\ ret.value.score = SCORE_MAX =>
               /\ chars_count(query) = chars_count(candidate)
               /\ has_match(query, candidate)
        /\ classify(query, candidate).kind = "Lengths" => ret.value.score # SCORE_MAX

\* C5 as amended: a score of +infinity implies equal code-point counts (not
\* has_match, which score does not test); a pair of equal counts that does pass
\* has_match is equal code point by code point after case folding; the DP
\* path never produces +infinity
C5_MaxImpliesEqualCounts ==
    (Scored /\ ~ret.panicked) =>
        /\ ret.value.score = SCORE_MAX =>
               /\ chars_count(query) = chars_count(candidate)
               /\ has_match(query, candidate) =>
                      \A k \in 1..Len(query) : lowercase_eq(query[k], candidate[k])
        /\ classify(query, candidate).kind = "Lengths" => ret.value.score # SCORE_MAX

\* +infinity for two strings of two code points that differ only by case
C5_Witness ==
    /\ pc = "score"
    /\ query = <<"a", "b">>
    /\ candidate = <<"A", "b">>
    /\ ~ret.panicked
    /\ ret.value.score = SCORE_MAX

\* C6: score is total: for every query and candidate it returns a sentinel or
\* a finite score with the id it was given, and never fails
C6_ScoreIsTotal ==
    Scored =>
        /\ ~ret.panicked
        /\ ret.value.index = index
        /\ ret.value.score # NaN

\* C7: a finite score implies has_match; when the DP runs on a pair that
\* has_match rejects, the final overall[q-1][c-1] is -infinity
C7_FiniteScoreImpliesMatch ==
    (Scored /\ ~ret.panicked) =>
        /\ IsFinite(ret.value.score) => has_match(query, candidate)
        /\ (classify(query, candidate).kind = "Lengths" /\ ~has_match(query, candidate))
               => ret.value.score = SCORE_MIN

\* the DP ran on a pair whose first query code point only is found
C7_Witness ==
    /\ pc = "score"
    /\ query = <<"a", "b">>
    /\ candidate = <<"b", "a", "*">>
    /\ ~ret.panicked
    /\ ret.value.score = SCORE_MIN

\* the 0-based positions of c whose code point equals ch after case folding
Occurrences(ch, c) == {j \in 0..(Len(c) - 1) : lowercase_eq(ch, c[j + 1])}

\* j * leadingGapPenalty + bonus[j] + (c - 1 - j) * trailingGapPenalty
SingleMatchValue(c, j) ==
    j * SCORE_GAP_LEADING + candidate_match_bonuses(c)[j]
        + (Len(c) - 1 - j) * SCORE_GAP_TRAILING

\* the case of C8: one query code point, found exactly once in a candidate of
\* two or more code points within the ceilings
C8_Case ==
    /\ Len(query) = 1
    /\ Len(candidate) >= 2
    /\ ~ExceedsCeilings(candidate)
    /\ Cardinality(Occurrences(query[1], candidate)) = 1

\* C8: a query of one code point that occurs exactly once in the candidate, at
\* position j, scores j * leadingGapPenalty + bonus[j]
\* + (c - 1 - j) * trailingGapPenalty
C8_SingleMatchScore ==
    (Scored /\ C8_Case) =>
        /\ ~ret.panicked
        /\ \A j \in Occurrences(query[1], candidate) :
               ret.value.score = SingleMatchValue(candidate, j)

\* C8 for score of score/mod.rs alone
C8_SingleMatchScore_ScoreMod ==
    (pc = "score" /\ C8_Case) =>
        /\ ~ret.panicked
        /\ \A j \in Occurrences(query[1], candidate) :
               ret.value.score = SingleMatchValue(candidate, j)

\* f32 <
FLt(a, b) == a # NaN /\ b # NaN /\ a < b

\* the score of the candidate followed by x is strictly less than the score
\* the state holds, for every x that is not the last query code point
ShorterScoresHigher ==
    \A x \in Chars \cup {Wide} :
        ~lowercase_eq(x, query[Len(query)]) =>
            LET longer == CalledScore(query, Append(candidate, x), index)
            IN  /\ ~longer.panicked
                /\ ~ret.panicked
                /\ FLt(longer.value.score, ret.value.score)

\* C9: for a non-empty query q and a candidate c with has_match(q, c), and x
\* not equal to the last code point of q, score(q, c followed by x) is
\* strictly less than score(q, c)
C9_ShorterScoresHigher ==
    (Scored /\ query # <<>> /\ has_match(query, candidate)) => ShorterScoresHigher

\* C9 as amended: the same for a candidate c within the byte and code-point
\* ceilings
C9_ShorterScoresHigherWithinCeilings ==
    (Scored /\ query # <<>> /\ has_match(query, candidate) /\ ~ExceedsCeilings(candidate))
        => ShorterScoresHigher

\* a candidate at the code-point ceiling: one more code point takes it over
C9_Witness ==
    /\ pc = "score"
    /\ query = <<"a">>
    /\ chars_count(candidate) = CANDIDATE_MAX_CHARS
    /\ has_match(query, candidate)
    /\ IsFinite(ret.value.score)

\* the strictly increasing maps of the positions of q into those of c
\* (0-based positions of c) with equal code points after case folding
Embeddings(q, c) ==
    {p \in [1..Len(q) -> 0..(Len(c) - 1)] :
        /\ \A k, l \in 1..Len(q) : k < l => p[k] < p[l]
        /\ \A k \in 1..Len(q) : lowercase_eq(q[k], c[p[k] + 1])}

Max2(a, b) == IF a >= b THEN a ELSE b

\* the terms of an embedding for the query positions k..Len(p), k >= 2
RECURSIVE EmbeddingTail(_, _, _)
EmbeddingTail(bonus, p, k) ==
    IF k > Len(p) THEN 0
    ELSE (IF p[k] = p[k - 1] + 1
          THEN Max2(bonus[p[k]], SCORE_MATCH_CONSECUTIVE)
          ELSE bonus[p[k]])
         + SCORE_GAP_INNER * (p[k] - p[k - 1] - 1)
         + EmbeddingTail(bonus, p, k + 1)

EmbeddingValue(c, p) ==
    LET bonus == candidate_match_bonuses(c)
    IN  p[1] * SCORE_GAP_LEADING + bonus[p[1]]
        + EmbeddingTail(bonus, p, 2)
        + SCORE_GAP_TRAILING * (Len(c) - 1 - p[Len(p)])

\* the case of C10: the DP path on a matching pair
C10_Case ==
    /\ query # <<>>
    /\ Len(query) # Len(candidate)
    /\ ~ExceedsCeilings(candidate)
    /\ has_match(query, candidate)

\* C10: on the DP path the score is the maximum over the embeddings of the
\* query into the candidate of the leading gaps, the bonuses (the consecutive
\* bonus only for a match right after the previous match), the inner gaps and
\* the trailing gaps
C10_ScoreIsBestEmbedding ==
    (Scored /\ C10_Case) =>
        /\ ~ret.panicked
        /\ \E p \in Embeddings(query, candidate) :
               ret.value.score = EmbeddingValue(candidate, p)
        /\ \A p \in Embeddings(query, candidate) :
               ret.value.score >= EmbeddingValue(candidate, p)

\* C10 for score of score/mod.rs alone
C10_ScoreIsBestEmbedding_ScoreMod ==
    (pc = "score" /\ C10_Case) =>
        /\ ~ret.panicked
        /\ \E p \in Embeddings(query, candidate) :
               ret.value.score = EmbeddingValue(candidate, p)
        /\ \A p \in Embeddings(query, candidate) :
               ret.value.score >= EmbeddingValue(candidate, p)

---------------------------------------------------------------------------
(* The two scorers against each other.                                     *)

\* what the scorer the state did not call returns for the same arguments
OtherScore(q, c, id) == IF pc = "lib_score" THEN score(q, c, id) ELSE lib_score(q, c, id)

\* C11: score of lib.rs and score of score/mod.rs are the same algorithm: for
\* every query, candidate and id they return the same outcome, the same
\* sentinel or the same finite value in exact arithmetic
C11_ScorersAgree ==
    Scored => ret = OtherScore(query, candidate, index)

\* where the two scorers do agree: on every pair that classify settles
\* without the DP (the sentinels), and in panicking on an empty candidate
C11_ScorersAgreeOffTheDP ==
    (Scored /\ (classify(query, candidate).kind = "Score" \/ candidate = <<>>)) =>
        ret = OtherScore(query, candidate, index)

\* the first matching cell of the first row, where the two scorers part: the
\* accumulator of lib.rs and the value it stores in its ending grid are those
\* of score/mod.rs plus the gap penalty of the row
C11_FirstMatchOneGapApart ==
    (Scored /\ classify(query, candidate).kind = "Lengths"
            /\ Occurrences(query[1], candidate) # {}) =>
        LET m == classify(query, candidate)
            a == score_matrices(query, candidate, m.q, m.c)
            b == lib_score_matrices(query, candidate, m.q, m.c)
            hits == Occurrences(query[1], candidate)
            j == CHOOSE h \in hits : \A k \in hits : h <= k
        IN  /\ b.ending[0, j] = FAdd(a.best_score_w_ending[0, j], lib_gap(0, m.q))
            /\ b.overall[0, j] = FAdd(a.best_score_overall[0, j], lib_gap(0, m.q))

====
